---- MODULE Spec2Model ----
(***************************************************************************)
(* GrainBridge NGR XML -> CSV converter (src/ngr_webapp.py).               *)
(*                                                                         *)
(* One conversion request: the uploaded stream is parsed (parse_xml), the  *)
(* three raw DataFrames are normalised (build_outputs) and the four tables *)
(* are served as CSV files and a ZIP.                                      *)
(*                                                                         *)
(* Strings are sequences of one-character strings.  Python's None and      *)
(* pandas' NaN are the single value Null, which is no string over Chars.   *)
(* A DataFrame is [cols, rows]: the set of its columns and the sequence of *)
(* its rows, each row a function from cols to a string or Null.  Column    *)
(* order is not modelled.                                                  *)
(***************************************************************************)
EXTENDS Naturals, Sequences, FiniteSets, TLC

VARIABLES xml, pc, raw, out, csv_map, zip

vars == <<xml, pc, raw, out, csv_map, zip>>

\* ------------------------------------------------------------------------
\* Bounds of the model
\* ------------------------------------------------------------------------
MaxPartnerships == 2
MaxPayees == 2
MaxUsers == 2
MaxElems == 5
MaxLeaves == 2

\* ------------------------------------------------------------------------
\* Strings
\* ------------------------------------------------------------------------
Null == <<"None">>

isna(v) == v = Null

\* code point of a character, for the ordering of str
Ord(c) ==
  CASE c = " " -> 32
    [] c = "5" -> 53
    [] c = ";" -> 59
    [] c = "a" -> 97
    [] c = "b" -> 98
    [] c = "x" -> 120
    [] OTHER -> 127

RECURSIVE StrLess(_, _)
StrLess(s, t) ==
  IF t = <<>> THEN FALSE
  ELSE IF s = <<>> THEN TRUE
  ELSE IF Ord(Head(s)) # Ord(Head(t)) THEN Ord(Head(s)) < Ord(Head(t))
  ELSE StrLess(Tail(s), Tail(t))

RECURSIVE lstrip(_)
lstrip(s) ==
  IF s # <<>> /\ Head(s) = " " THEN lstrip(Tail(s)) ELSE s

RECURSIVE rstrip(_)
rstrip(s) ==
  IF s # <<>> /\ s[Len(s)] = " " THEN rstrip(SubSeq(s, 1, Len(s) - 1)) ELSE s

\* str.strip()
strip(s) == rstrip(lstrip(s))

\* str.upper() on the tags of the model
upper(tag) ==
  CASE tag = "grn" -> "GRN"
    [] tag = "payee_id" -> "PAYEE_ID"
    [] tag = "user_id" -> "USER_ID"
    [] tag = "phone_type" -> "PHONE_TYPE"
    [] OTHER -> tag

\* sep.join(list)
RECURSIVE join(_, _)
join(sep, list) ==
  IF list = <<>> THEN <<>>
  ELSE IF Len(list) = 1 THEN list[1]
  ELSE list[1] \o sep \o join(sep, Tail(list))

\* ------------------------------------------------------------------------
\* Elements of the tree.  A child is [tag, text, sub]: text is Null when the
\* element has no text, sub says that it has child elements (len(child) > 0).
\* A user is [kids], a payee [kids, users], a partnership [kids, payees];
\* kids are the children that are no payee (no user) elements.
\* ------------------------------------------------------------------------

\* (child.text or '').strip()
LeafText(child) ==
  IF child.text = Null \/ child.text = <<>> THEN <<>> ELSE strip(child.text)

\* elem.find(tag): index of the first child with that tag, 0 if none
find(kids, tag) ==
  IF \E i \in 1..Len(kids) : kids[i].tag = tag
  THEN CHOOSE i \in 1..Len(kids) :
         /\ kids[i].tag = tag
         /\ \A j \in 1..(i - 1) : kids[j].tag # tag
  ELSE 0

txt(kids, tag) ==
  LET t == find(kids, tag) IN
  IF t # 0 /\ kids[t].text # Null /\ kids[t].text # <<>>
  THEN strip(kids[t].text)
  ELSE Null

\* {child.tag.upper(): (child.text or '').strip() for child in kids
\*  if len(child) == 0}: a later child overwrites an earlier one
LeafDict(kids) ==
  LET idx == {i \in 1..Len(kids) : ~kids[i].sub}
      last(c) == CHOOSE i \in idx :
                   /\ upper(kids[i].tag) = c
                   /\ \A j \in idx : upper(kids[j].tag) = c => j <= i
  IN [c \in {upper(kids[i].tag) : i \in idx} |-> LeafText(kids[last(c)])]

\* dict.update
update(d, e) ==
  [k \in DOMAIN d \cup DOMAIN e |-> IF k \in DOMAIN e THEN e[k] ELSE d[k]]

RECURSIVE SelectSeq2(_, _)
SelectSeq2(s, tags) ==
  IF s = <<>> THEN <<>>
  ELSE IF Head(s).tag \in tags THEN <<Head(s)>> \o SelectSeq2(Tail(s), tags)
  ELSE SelectSeq2(Tail(s), tags)

RECURSIVE RejectSeq(_, _)
RejectSeq(s, tags) ==
  IF s = <<>> THEN <<>>
  ELSE IF Head(s).tag \in tags THEN RejectSeq(Tail(s), tags)
  ELSE <<Head(s)>> \o RejectSeq(Tail(s), tags)

\* phone_types / phone_nums: the texts of the children with that exact tag
PhoneList(kids, tag) ==
  LET sel == SelectSeq2(kids, {tag}) IN [i \in 1..Len(sel) |-> LeafText(sel[i])]

PhoneAggregate(list) == IF list # <<>> THEN join(<<";", " ">>, list) ELSE Null

GrnRow(partnership) == LeafDict(partnership.kids)

PayeeRow(grn_id, payee) ==
  update([c \in {"GRN"} |-> grn_id], LeafDict(payee.kids))

UserRow(grn_id, payee_id, user) ==
  LET base == [c \in {"GRN", "PAYEE_ID"} |->
                 IF c = "GRN" THEN grn_id ELSE payee_id]
      others == LeafDict(RejectSeq(user.kids, {"PHONE_TYPE", "PHONE_NUMBER"}))
      phones == [c \in {"PHONE_TYPES", "PHONE_NUMBERS"} |->
                   IF c = "PHONE_TYPES"
                   THEN PhoneAggregate(PhoneList(user.kids, "PHONE_TYPE"))
                   ELSE PhoneAggregate(PhoneList(user.kids, "PHONE_NUMBER"))]
  IN update(update(base, others), phones)

\* ------------------------------------------------------------------------
\* The tree walk of parse_xml: lists of row dicts in document order
\* ------------------------------------------------------------------------
RECURSIVE Flatten(_)
Flatten(ss) == IF ss = <<>> THEN <<>> ELSE Head(ss) \o Flatten(Tail(ss))

grn_rows(root) == [i \in 1..Len(root) |-> GrnRow(root[i])]

payee_rows(root) ==
  Flatten([i \in 1..Len(root) |->
    [j \in 1..Len(root[i].payees) |->
       PayeeRow(txt(root[i].kids, "GRN"), root[i].payees[j])]])

user_rows(root) ==
  Flatten([i \in 1..Len(root) |->
    Flatten([j \in 1..Len(root[i].payees) |->
      [k \in 1..Len(root[i].payees[j].users) |->
         UserRow(txt(root[i].kids, "GRN"),
                 txt(root[i].payees[j].kids, "PAYEE_ID"),
                 root[i].payees[j].users[k])]])])

\* pd.DataFrame(list of dicts): the columns are the union of the keys, a key
\* a row lacks is NaN; the frame has one row per dict even without columns
DataFrame(dicts) ==
  LET cols == UNION {DOMAIN dicts[i] : i \in 1..Len(dicts)} IN
  [cols |-> cols,
   rows |-> [i \in 1..Len(dicts) |->
               [c \in cols |-> IF c \in DOMAIN dicts[i] THEN dicts[i][c] ELSE Null]]]

parse_xml(root) ==
  <<DataFrame(grn_rows(root)), DataFrame(payee_rows(root)), DataFrame(user_rows(root))>>

\* ------------------------------------------------------------------------
\* pandas
\* ------------------------------------------------------------------------

\* DataFrame.empty: some axis has length 0
empty(df) == df.cols = {} \/ Len(df.rows) = 0

\* the elements of s at the indexes in keep, from index i on, in order
RECURSIVE TakeIdx(_, _, _)
TakeIdx(s, keep, i) ==
  IF i > Len(s) THEN <<>>
  ELSE (IF i \in keep THEN <<s[i]>> ELSE <<>>) \o TakeIdx(s, keep, i + 1)

\* DataFrame.drop_duplicates(subset) raises KeyError for a missing column,
\* but returns a copy of an empty frame before it looks at subset
drop_duplicates_raises(df, subset) == ~empty(df) /\ ~(subset \subseteq df.cols)

\* keep="first": a row goes when an earlier row agrees with it on subset
\* (two missing values agree)
drop_duplicates(df, subset) ==
  IF empty(df) THEN df
  ELSE LET keep == {i \in 1..Len(df.rows) :
                      \A j \in 1..(i - 1) :
                        \E c \in subset : df.rows[j][c] # df.rows[i][c]}
       IN [cols |-> df.cols, rows |-> TakeIdx(df.rows, keep, 1)]

\* df[[...]] raises KeyError for a missing column
getitem_raises(df, cols) == ~(cols \subseteq df.cols)

getitem(df, cols) ==
  [cols |-> cols,
   rows |-> [i \in 1..Len(df.rows) |-> [c \in cols |-> df.rows[i][c]]]]

\* df.groupby(key) raises KeyError when df has no such column
groupby_raises(df, key) == key \notin df.cols

\* the group keys of df.groupby(key): sort=True, dropna=True
RECURSIVE SortKeys(_)
SortKeys(S) ==
  IF S = {} THEN <<>>
  ELSE LET m == CHOOSE k \in S : \A l \in S \ {k} : StrLess(k, l)
       IN <<m>> \o SortKeys(S \ {m})

group_keys(df, key) ==
  SortKeys({df.rows[i][key] : i \in 1..Len(df.rows)} \ {Null})

\* a merge that takes the cell of the group's first row: col.iloc[0]
first_row(col) == col[1]

\* lambda col: col.dropna().iloc[0] if col.notna().any() else None
first_notna(col) ==
  LET dropna == SelectSeq(col, LAMBDA v : ~isna(v)) IN
  IF \E i \in 1..Len(col) : ~isna(col[i]) THEN dropna[1] ELSE Null

\* df.groupby(key, as_index=False).agg(first_notna)
dedup(df, key) ==
  LET keys == group_keys(df, key)
      group(k) == TakeIdx(df.rows, {i \in 1..Len(df.rows) : df.rows[i][key] = k}, 1)
      column(g, c) == [i \in 1..Len(g) |-> g[i][c]]
  IN [cols |-> df.cols,
      rows |-> [n \in 1..Len(keys) |->
                  [c \in df.cols |->
                     IF c = key THEN keys[n]
                     ELSE first_notna(column(group(keys[n]), c))]]]

MappingCols == {"GRN", "PAYEE_ID", "USER_ID"}

build_outputs_raises(grn_raw, payee_raw, user_raw) ==
  \/ drop_duplicates_raises(grn_raw, {"GRN"})
  \/ groupby_raises(payee_raw, "PAYEE_ID")
  \/ groupby_raises(user_raw, "USER_ID")
  \/ getitem_raises(user_raw, MappingCols)

\* a mapping table with one row per USER_ID
build_outputs_per_user(grn_raw, payee_raw, user_raw) ==
  <<drop_duplicates(grn_raw, {"GRN"}),
    dedup(payee_raw, "PAYEE_ID"),
    dedup(user_raw, "USER_ID"),
    drop_duplicates(getitem(user_raw, MappingCols), {"USER_ID"})>>

build_outputs(grn_raw, payee_raw, user_raw) ==
  <<drop_duplicates(grn_raw, {"GRN"}),
    dedup(payee_raw, "PAYEE_ID"),
    dedup(user_raw, "USER_ID"),
    drop_duplicates(getitem(user_raw, MappingCols), MappingCols)>>

\* ------------------------------------------------------------------------
\* The uploaded documents.  A document is the sequence of the partnership
\* elements of its root.
\* ------------------------------------------------------------------------
Leaf(tag, text) == [tag |-> tag, text |-> text, sub |-> FALSE]

Branch(tag) == [tag |-> tag, text |-> Null, sub |-> TRUE]

RECURSIVE SeqsOfLen(_, _)
SeqsOfLen(S, n) ==
  IF n = 0 THEN {<<>>}
  ELSE {<<x>> \o s : x \in S, s \in SeqsOfLen(S, n - 1)}

SeqsUpTo(S, n) == UNION {SeqsOfLen(S, k) : k \in 0..n}

\* Records: a partnership has no children, or a GRN with or without a NAME;
\* a payee has or lacks its PAYEE_ID and has a NAME that may be empty; a user
\* has or lacks its USER_ID.
PartnershipKids ==
  {<<>>} \cup {<<Leaf("GRN", <<"a">>)>> \o n : n \in {<<>>, <<Leaf("NAME", <<"x">>)>>}}

PayeeKids ==
  {i \o n : i \in {<<>>, <<Leaf("PAYEE_ID", <<"a">>)>>, <<Leaf("PAYEE_ID", <<"b">>)>>},
            n \in {<<Leaf("NAME", Null)>>, <<Leaf("NAME", <<"x">>)>>}}

UserKids ==
  {<<>>, <<Leaf("USER_ID", <<"a">>)>>, <<Leaf("USER_ID", <<"b">>)>>}

\* The tree with partnership kids pk, payee kids yk and user kids uk, where
\* payee j is a child of partnership yp[j] and user k a child of payee up[k]
\* (yp and up do not decrease: elements are numbered in document order).
Tree(pk, yk, uk, yp, up) ==
  [i \in 1..Len(pk) |->
     [kids |-> pk[i],
      payees |->
        LET js == TakeIdx([j \in 1..Len(yk) |-> j], {j \in 1..Len(yk) : yp[j] = i}, 1)
        IN [n \in 1..Len(js) |->
              [kids |-> yk[js[n]],
               users |->
                 LET ks == TakeIdx(uk, {k \in 1..Len(uk) : up[k] = js[n]}, 1)
                 IN [m \in 1..Len(ks) |-> [kids |-> ks[m]]]]]]]

NonDecreasing(f) == \A i, j \in DOMAIN f : i <= j => f[i] <= f[j]

\* at most MaxPartnerships partnerships, MaxPayees payees and MaxUsers users,
\* MaxElems elements in all
Shapes ==
  {s \in (0..MaxPartnerships) \X (0..MaxPayees) \X (0..MaxUsers) :
     /\ s[1] + s[2] + s[3] <= MaxElems
     /\ s[2] > 0 => s[1] > 0
     /\ s[3] > 0 => s[2] > 0}

\* Chains: one partnership, one payee, one user, with at most MaxLeaves
\* children over tags in either case, texts with blanks and elements that
\* have children of their own.
Texts == {Null, <<" ">>, <<"a">>, <<" ", "b", " ">>}

Children(tags) == {Leaf(t, x) : t \in tags, x \in Texts} \cup {Branch(t) : t \in tags}

PartnershipChildren == Children({"GRN", "grn"})

PayeeChildren == Children({"PAYEE_ID", "payee_id", "GRN"})

UserChildren ==
  Children({"USER_ID", "PAYEE_ID", "PHONE_TYPE", "PHONE_NUMBER", "phone_type"})

Chain(pk, yk, uk) ==
  <<[kids |-> pk, payees |-> <<[kids |-> yk, users |-> <<[kids |-> uk]>>]>>]>>

\* ------------------------------------------------------------------------
\* The conversion block of the script
\* ------------------------------------------------------------------------
FileNames == {"GRN_unique.csv", "PAYEE_unique.csv", "USER_unique.csv", "GRN_PAYEE_USER.csv"}

\* a well-formed document of records
UploadRecords ==
  \E s \in Shapes :
    \E pk \in [1..s[1] -> PartnershipKids], yk \in [1..s[2] -> PayeeKids],
       uk \in [1..s[3] -> UserKids],
       yp \in [1..s[2] -> 1..s[1]], up \in [1..s[3] -> 1..s[2]] :
      /\ NonDecreasing(yp)
      /\ NonDecreasing(up)
      /\ xml = [wellformed |-> TRUE, root |-> Tree(pk, yk, uk, yp, up)]

\* a chain, or a stream the parser rejects (root is then what it had read
\* before the error)
UploadChain ==
  \E w \in BOOLEAN :
    \E pk \in SeqsUpTo(PartnershipChildren, MaxLeaves) :
      \E yk \in SeqsUpTo(PayeeChildren, MaxLeaves - Len(pk)) :
        \E uk \in SeqsUpTo(UserChildren, MaxLeaves - Len(pk) - Len(yk)) :
          xml = [wellformed |-> w, root |-> Chain(pk, yk, uk)]

Init ==
  /\ UploadRecords \/ UploadChain
  /\ pc = "uploaded"
  /\ raw = <<>>
  /\ out = <<>>
  /\ csv_map = <<>>
  /\ zip = {}

\* a parser that returns what it had read instead of raising
ParseXmlLenient ==
  /\ pc = "uploaded"
  /\ raw' = parse_xml(xml.root)
  /\ pc' = "parsed"
  /\ UNCHANGED <<xml, out, csv_map, zip>>

\* parse_xml(xml_file) returns the three raw frames
ParseXml ==
  /\ pc = "uploaded"
  /\ xml.wellformed
  /\ raw' = parse_xml(xml.root)
  /\ pc' = "parsed"
  /\ UNCHANGED <<xml, out, csv_map, zip>>

\* ET.parse raises: st.error, st.stop
ParseError ==
  /\ pc = "uploaded"
  /\ ~xml.wellformed
  /\ pc' = "stopped"
  /\ UNCHANGED <<xml, raw, out, csv_map, zip>>

\* build_outputs returns the four tables
BuildOutputs ==
  /\ pc = "parsed"
  /\ ~build_outputs_raises(raw[1], raw[2], raw[3])
  /\ out' = build_outputs(raw[1], raw[2], raw[3])
  /\ pc' = "built"
  /\ UNCHANGED <<xml, raw, csv_map, zip>>

\* build_outputs raises KeyError, outside the try block: the run ends
BuildOutputsRaises ==
  /\ pc = "parsed"
  /\ build_outputs_raises(raw[1], raw[2], raw[3])
  /\ pc' = "crashed"
  /\ UNCHANGED <<xml, raw, out, csv_map, zip>>

\* the download buttons and the ZIP bundle
Serve ==
  /\ pc = "built"
  /\ csv_map' = [fn \in FileNames |->
                   CASE fn = "GRN_unique.csv" -> out[1]
                     [] fn = "PAYEE_unique.csv" -> out[2]
                     [] fn = "USER_unique.csv" -> out[3]
                     [] OTHER -> out[4]]
  /\ zip' = FileNames
  /\ pc' = "served"
  /\ UNCHANGED <<xml, raw, out>>

Next ==
  \/ ParseXml
  \/ ParseError
  \/ BuildOutputs
  \/ BuildOutputsRaises
  \/ Serve

Spec == Init /\ [][Next]_vars

\* ------------------------------------------------------------------------
\* The elements of the uploaded tree in document order, for the properties
\* ------------------------------------------------------------------------
grn_raw == raw[1]
payee_raw == raw[2]
user_raw == raw[3]
grn_u == out[1]
payee_u == out[2]
user_u == out[3]
mapping == out[4]

Parsed == raw # <<>>
Built == out # <<>>

\* (partnership, payee) pairs and (partnership, payee, user) triples
PayeeElems(root) ==
  Flatten([i \in 1..Len(root) |->
    [j \in 1..Len(root[i].payees) |-> <<root[i], root[i].payees[j]>>]])

UserElems(root) ==
  Flatten([i \in 1..Len(root) |->
    Flatten([j \in 1..Len(root[i].payees) |->
      [k \in 1..Len(root[i].payees[j].users) |->
         <<root[i], root[i].payees[j], root[i].payees[j].users[k]>>]])])

\* the value of a field of a row: Null when the row has no such field
Cell(row, c) == IF c \in DOMAIN row THEN row[c] ELSE Null

RowsWith(df, c, v) == {i \in 1..Len(df.rows) : Cell(df.rows[i], c) = v}

Least(S) == CHOOSE i \in S : \A j \in S : i <= j

\* ------------------------------------------------------------------------
\* C1: in the Payee table (key PAYEE_ID) and the User table (key USER_ID),
\* every key value of the raw rows has exactly one merged row, and each of
\* its other cells is the first non-null value of that column among the raw
\* rows with that key, in their order (an empty string is a value), and is
\* null when all of them are null.
\* ------------------------------------------------------------------------
MergedFirstNonNull(df, table, key) ==
  /\ table.cols = df.cols
  /\ \A i \in 1..Len(df.rows) :
       ~isna(df.rows[i][key]) =>
         Cardinality(RowsWith(table, key, df.rows[i][key])) = 1
  /\ \A n \in 1..Len(table.rows) :
       LET group == RowsWith(df, key, table.rows[n][key]) IN
       /\ group # {}
       /\ \A c \in df.cols \ {key} :
            LET present == {i \in group : df.rows[i][c] # Null} IN
            table.rows[n][c] =
              IF present = {} THEN Null ELSE df.rows[Least(present)][c]

C1_FirstNonNullMerge ==
  Built => /\ MergedFirstNonNull(payee_raw, payee_u, "PAYEE_ID")
           /\ MergedFirstNonNull(user_raw, user_u, "USER_ID")

\* two raw payee rows of one key: a column null in the first and set in the
\* second, and a column empty in the first and non-empty in the second
C1_Witness ==
  /\ Built
  /\ \E i, j \in 1..Len(payee_raw.rows) :
       /\ i < j
       /\ payee_raw.rows[i]["PAYEE_ID"] = payee_raw.rows[j]["PAYEE_ID"]
       /\ ~isna(payee_raw.rows[i]["PAYEE_ID"])
       /\ \E c, d \in payee_raw.cols :
            /\ isna(payee_raw.rows[i][c])
            /\ ~isna(payee_raw.rows[j][c])
            /\ payee_raw.rows[i][d] = <<>>
            /\ payee_raw.rows[j][d] \notin {<<>>, Null}
            /\ \E n \in 1..Len(payee_u.rows) :
                 /\ payee_u.rows[n][c] = payee_raw.rows[j][c]
                 /\ payee_u.rows[n][d] = <<>>

\* ------------------------------------------------------------------------
\* C2: the GRN table has exactly one row per distinct GRN value of the raw
\* GRN rows, that row is the first raw row with that value, field for field,
\* and the rows keep their first-occurrence order.
\* ------------------------------------------------------------------------
C2_GrnFirstRow ==
  Built =>
    LET first(v) == Least(RowsWith(grn_raw, "GRN", v)) IN
    /\ \A i \in 1..Len(grn_raw.rows) :
         LET v == Cell(grn_raw.rows[i], "GRN") IN
         /\ Cardinality(RowsWith(grn_u, "GRN", v)) = 1
         /\ \A n \in RowsWith(grn_u, "GRN", v) :
              grn_u.rows[n] = grn_raw.rows[first(v)]
    /\ \A n \in 1..Len(grn_u.rows) :
         RowsWith(grn_raw, "GRN", Cell(grn_u.rows[n], "GRN")) # {}
    /\ \A m, n \in 1..Len(grn_u.rows) :
         m < n => first(Cell(grn_u.rows[m], "GRN"))
                    < first(Cell(grn_u.rows[n], "GRN"))

\* ------------------------------------------------------------------------
\* C3: when a raw Payee row has a null PAYEE_ID the Payee table has exactly
\* one row with a null PAYEE_ID; likewise USER_ID in the User table.
\* ------------------------------------------------------------------------
NullKeyGroup(df, table, key) ==
  RowsWith(df, key, Null) # {} => Cardinality(RowsWith(table, key, Null)) = 1

C3_NullKeyGroup ==
  Built => /\ NullKeyGroup(payee_raw, payee_u, "PAYEE_ID")
           /\ NullKeyGroup(user_raw, user_u, "USER_ID")

\* ------------------------------------------------------------------------
\* C4: the mapping table is the projection of the raw user rows onto GRN,
\* PAYEE_ID, USER_ID: each of its rows is the triple of a raw user row, each
\* triple of a raw user row is in it exactly once, in first-occurrence
\* order, and it has no more rows than there are raw user rows.
\* ------------------------------------------------------------------------
Triple(row) == [c \in MappingCols |-> row[c]]

C4_MappingProjection ==
  Built =>
    LET occ(t) == {i \in 1..Len(user_raw.rows) : Triple(user_raw.rows[i]) = t} IN
    /\ mapping.cols = MappingCols
    /\ \A n \in 1..Len(mapping.rows) : occ(mapping.rows[n]) # {}
    /\ \A i \in 1..Len(user_raw.rows) :
         Cardinality({n \in 1..Len(mapping.rows) :
                        mapping.rows[n] = Triple(user_raw.rows[i])}) = 1
    /\ \A m, n \in 1..Len(mapping.rows) :
         m < n => Least(occ(mapping.rows[m])) < Least(occ(mapping.rows[n]))
    /\ Len(mapping.rows) <= Len(user_raw.rows)

\* one USER_ID under two PAYEE_IDs: two mapping rows
C4_Witness ==
  /\ Built
  /\ \E i, j \in 1..Len(user_raw.rows) :
       /\ ~isna(user_raw.rows[i]["USER_ID"])
       /\ user_raw.rows[i]["USER_ID"] = user_raw.rows[j]["USER_ID"]
       /\ user_raw.rows[i]["PAYEE_ID"] # user_raw.rows[j]["PAYEE_ID"]
  /\ Len(mapping.rows) = 2

\* ------------------------------------------------------------------------
\* C5: normalisation never fails, and the document without partnerships
\* gives four tables without rows.
\* ------------------------------------------------------------------------
C5_NeverFails ==
  /\ pc # "crashed"
  /\ Parsed /\ xml.root = <<>> /\ pc # "parsed" =>
       /\ Built
       /\ \A t \in 1..4 : out[t].rows = <<>>

\* ------------------------------------------------------------------------
\* C6: PHONE_TYPES (PHONE_NUMBERS) of a user row is the "; "-joined trimmed
\* texts of the user's PHONE_TYPE (PHONE_NUMBER) children, null without such
\* a child, never the empty string, and the row has no PHONE_TYPE or
\* PHONE_NUMBER field.
\* ------------------------------------------------------------------------
C6_PhoneAggregation ==
  Parsed =>
    LET users == UserElems(xml.root) IN
    /\ user_raw.cols \cap {"PHONE_TYPE", "PHONE_NUMBER"} = {}
    /\ \A k \in 1..Len(users) :
         LET kids == users[k][3].kids
             row == user_raw.rows[k]
             types == SelectSeq(kids, LAMBDA c : c.tag = "PHONE_TYPE")
             nums == SelectSeq(kids, LAMBDA c : c.tag = "PHONE_NUMBER")
         IN /\ row["PHONE_TYPES"] # <<>>
            /\ row["PHONE_NUMBERS"] # <<>>
            /\ (types = <<>>) = isna(row["PHONE_TYPES"])
            /\ (nums = <<>>) = isna(row["PHONE_NUMBERS"])
            /\ types # <<>> =>
                 row["PHONE_TYPES"] =
                   join(<<";", " ">>, [n \in 1..Len(types) |-> LeafText(types[n])])
            /\ nums # <<>> =>
                 row["PHONE_NUMBERS"] =
                   join(<<";", " ">>, [n \in 1..Len(nums) |-> LeafText(nums[n])])

\* ------------------------------------------------------------------------
\* C7: a stream that is not well-formed XML ends the conversion in the error
\* state: no raw frames, none of the four tables, no CSV file, no archive.
\* ------------------------------------------------------------------------
C7_MalformedNoTables ==
  ~xml.wellformed =>
    /\ pc \in {"uploaded", "stopped"}
    /\ raw = <<>>
    /\ out = <<>>
    /\ csv_map = <<>>
    /\ zip = {}

C7_Witness == ~xml.wellformed /\ pc = "stopped" /\ xml.root[1].kids # <<>>

\* ------------------------------------------------------------------------
\* C8: GRN of a Payee row is the identifier looked up on its partnership;
\* GRN and PAYEE_ID of a User row are the identifiers looked up on its
\* partnership and payee, whatever children the payee or user has.
\* ------------------------------------------------------------------------
C8_ForeignKeysVerbatim ==
  Parsed =>
    LET payees == PayeeElems(xml.root)
        users == UserElems(xml.root)
    IN /\ \A j \in 1..Len(payees) :
            payee_raw.rows[j]["GRN"] = txt(payees[j][1].kids, "GRN")
       /\ \A k \in 1..Len(users) :
            /\ user_raw.rows[k]["GRN"] = txt(users[k][1].kids, "GRN")
            /\ user_raw.rows[k]["PAYEE_ID"] = txt(users[k][2].kids, "PAYEE_ID")

\* ------------------------------------------------------------------------
\* C9: one GRN row per partnership, one Payee row per payee, one User row
\* per user; every row has its identifier field (GRN, PAYEE_ID, USER_ID),
\* null when the element has no such child.
\* ------------------------------------------------------------------------
HasKeyField(df, key, kids(_)) ==
  \A i \in 1..Len(df.rows) :
    /\ key \in DOMAIN df.rows[i]
    /\ find(kids(i), key) = 0 => isna(df.rows[i][key])

C9_RowsEmitted ==
  Parsed =>
    LET payees == PayeeElems(xml.root)
        users == UserElems(xml.root)
        pkids(i) == xml.root[i].kids
        ykids(i) == payees[i][2].kids
        ukids(i) == users[i][3].kids
    IN /\ Len(grn_raw.rows) = Len(xml.root)
       /\ Len(payee_raw.rows) = Len(payees)
       /\ Len(user_raw.rows) = Len(users)
       /\ HasKeyField(grn_raw, "GRN", pkids)
       /\ HasKeyField(payee_raw, "PAYEE_ID", ykids)
       /\ HasKeyField(user_raw, "USER_ID", ukids)

\* ------------------------------------------------------------------------
\* C10: every row of the mapping table resolves: its GRN is the GRN of a row
\* of the GRN table, its PAYEE_ID the PAYEE_ID of exactly one row of the
\* Payee table, its USER_ID the USER_ID of exactly one row of the User table.
\* ------------------------------------------------------------------------
C10_ReferentialIntegrity ==
  Built =>
    \A n \in 1..Len(mapping.rows) :
      /\ RowsWith(grn_u, "GRN", mapping.rows[n]["GRN"]) # {}
      /\ Cardinality(RowsWith(payee_u, "PAYEE_ID", mapping.rows[n]["PAYEE_ID"])) = 1
      /\ Cardinality(RowsWith(user_u, "USER_ID", mapping.rows[n]["USER_ID"])) = 1

====
